---- MODULE Spec2Model ----
(***************************************************************************)
(* A model of AUSCrawl's crawl.js: term discovery, the per-term crawl      *)
(* (subject upserts, listing extraction, reference upserts and course      *)
(* persistence) and the process outcome.                                   *)
(*                                                                         *)
(* JavaScript strings are sequences of one-character strings, so that      *)
(* split, includes, trim, the regular expressions and parseInt are         *)
(* computed as the code computes them.  Every JavaScript value that can be *)
(* null or undefined is a sequence as well: Null and Undefined are         *)
(* one-element sequences that no character string equals.                  *)
(***************************************************************************)
EXTENDS Integers, Sequences, FiniteSets, TLC

(***************************************************************************)
(* Bounds of the model.                                                    *)
(***************************************************************************)
MaxOptions == 2      \* options of the term selector
MaxDaysLen == 2      \* letters of a meeting-days cell
MaxTokens == 5       \* " - "-separated tokens of a header line

(***************************************************************************)
(* JavaScript values.                                                      *)
(***************************************************************************)
Undefined == <<"undefined">>
Null == <<"null">>
True == <<"true">>
False == <<"false">>

Bool(b) == IF b THEN True ELSE False

Num(n) == <<"number", n>>

Truthy(v) == v \notin {Undefined, Null, <<>>, False}

Min(S) == CHOOSE x \in S : \A y \in S : x <= y

\* a[i] of a JavaScript array (0-based): undefined past the end
At(a, i) == IF i + 1 <= Len(a) THEN a[i + 1] ELSE Undefined

(***************************************************************************)
(* String.prototype functions.                                             *)
(***************************************************************************)
StartsWithAt(s, p, i) ==
    /\ i >= 1
    /\ i + Len(p) - 1 <= Len(s)
    /\ SubSeq(s, i, i + Len(p) - 1) = p

\* 1-based position of the first occurrence of p in s, 0 when there is none
IndexOf(s, p) ==
    LET c == {i \in 1..(Len(s) + 1) : StartsWithAt(s, p, i)}
    IN  IF c = {} THEN 0 ELSE Min(c)

Includes(s, p) == IndexOf(s, p) # 0

RECURSIVE Split(_, _)
Split(s, d) ==
    LET i == IndexOf(s, d)
    IN  IF i = 0
        THEN <<s>>
        ELSE <<SubSeq(s, 1, i - 1)>> \o Split(SubSeq(s, i + Len(d), Len(s)), d)

IsSpace(c) == c \in {" ", "\n", "\t"}

Trim(s) ==
    LET ns == {i \in 1..Len(s) : ~IsSpace(s[i])}
    IN  IF ns = {} THEN <<>>
        ELSE SubSeq(s, Min(ns), CHOOSE j \in ns : \A k \in ns : k <= j)

\* String.prototype.replace with a string pattern: the first occurrence only
Replace(s, p, r) ==
    LET i == IndexOf(s, p)
    IN  IF i = 0 THEN s
        ELSE SubSeq(s, 1, i - 1) \o r \o SubSeq(s, i + Len(p), Len(s))

Digits == <<"0", "1", "2", "3", "4", "5", "6", "7", "8", "9">>

IsDigit(c) == \E d \in 1..Len(Digits) : Digits[d] = c

DigitVal(c) == (CHOOSE d \in 1..Len(Digits) : Digits[d] = c) - 1

RECURSIVE DigitsValue(_, _)
DigitsValue(s, acc) ==
    IF s = <<>> \/ ~IsDigit(Head(s)) THEN acc
    ELSE DigitsValue(Tail(s), acc * 10 + DigitVal(Head(s)))

\* parseInt(s): leading white space, a sign, then the longest run of digits
ParseInt(s) ==
    LET ns == {i \in 1..Len(s) : ~IsSpace(s[i])}
        t  == IF ns = {} THEN <<>> ELSE SubSeq(s, Min(ns), Len(s))
        neg == t # <<>> /\ Head(t) = "-"
        u  == IF t # <<>> /\ Head(t) \in {"-", "+"} THEN Tail(t) ELSE t
    IN  IF u = <<>> \/ ~IsDigit(Head(u))
        THEN [nan |-> TRUE, val |-> 0]
        ELSE [nan |-> FALSE,
              val |-> IF neg THEN 0 - DigitsValue(u, 0) ELSE DigitsValue(u, 0)]

\* JavaScript's > on strings: code units compared left to right
RECURSIVE StrGreater(_, _)
StrGreater(a, b) ==
    IF a = <<>> THEN FALSE
    ELSE IF b = <<>> THEN TRUE
    ELSE IF Head(a) = Head(b) THEN StrGreater(Tail(a), Tail(b))
    ELSE LET Order == <<" ", "0", "1", "2", "3", "4", "5", "6", "7", "8", "9">>
             pos(c) == CHOOSE k \in 1..Len(Order) : Order[k] = c
         IN  pos(Head(a)) > pos(Head(b))

(***************************************************************************)
(* The regular expressions of the extraction.                              *)
(***************************************************************************)
NoMatch == <<"no match">>

LineEnd(text, from) ==
    LET nl == {i \in from..Len(text) : text[i] = "\n"}
    IN  IF nl = {} THEN Len(text) ELSE Min(nl) - 1

\* text.match(/(?<=label).*/g): null, or the matches; [0] is the rest of the
\* line after the first occurrence of the label
MatchAfter(text, label) ==
    LET i == IndexOf(text, label)
    IN  IF i = 0 THEN NoMatch
        ELSE SubSeq(text, i + Len(label), LineEnd(text, i + Len(label)))

LineStart(text, at) ==
    LET nl == {i \in 1..(at - 1) : text[i] = "\n"}
    IN  IF nl = {} THEN 1 ELSE (CHOOSE i \in nl : \A j \in nl : j <= i) + 1

\* text.match(/.+?(?=word)/g): null, or the matches.  A match needs one or
\* more characters of one line before an occurrence of the word; [0] is the
\* leftmost one, cut as short as it can be: from the start of the line of
\* the first occurrence that has a character of its line before it, up to
\* that occurrence
MatchBefore(text, word) ==
    LET at == {e \in 2..(Len(text) + 1) :
                  StartsWithAt(text, word, e) /\ text[e - 1] # "\n"}
    IN  IF at = {} THEN NoMatch
        ELSE SubSeq(text, LineStart(text, Min(at)), Min(at) - 1)

(***************************************************************************)
(* The literals of crawl.js.                                               *)
(***************************************************************************)
SepDash == <<" ", "-", " ">>
Space == <<" ">>
Newline == <<"\n">>
CommaSep == <<",", " ">>
LabWord == <<"L", "a", "b">>
Marker == <<"T", "a", "r", "g", "e", "t", "e", "d", " ", "e", "L", "i", "p", "o">>
PMark == <<"(", "P", ")">>
Mailto == <<"m", "a", "i", "l", "t", "o", ":">>
TBA == <<"T", "B", "A">>
NoneWord == <<"n", "o", "n", "e">>
NoneLabel == <<"N", "o", "n", "e">>
ViewOnly == <<" ", "(", "V", "i", "e", "w", " ", "o", "n", "l", "y", ")">>
ProbeTerm == <<"2", "0", "0", "5", "2", "0">>
LevelsLabel == <<"L", "e", "v", "e", "l", "s", ":", " ">>
AttributesLabel == <<"A", "t", "t", "r", "i", "b", "u", "t", "e", "s", ":", " ">>
ScheduleWord == <<" ", "S", "c", "h", "e", "d", "u", "l", "e">>
CreditsWord == <<" ", "C", "r", "e", "d", "i", "t", "s">>

(***************************************************************************)
(* Extraction of one header/detail pair (the body of the loop of the       *)
(* 'th a' evaluation).  An entry of the listing page is                    *)
(*   header          the innerText of the header link,                     *)
(*   descriptionText the innerText of the detail block,                    *)
(*   classTable      the detail block's table: present, the innerText of   *)
(*                   its td cells, and the href of its first link (NoLink  *)
(*                   when it has none).                                    *)
(***************************************************************************)
NoLink == <<"no link">>
InvalidDate == <<"Invalid Date">>

NoTable == [present |-> FALSE, td |-> <<>>, href |-> NoLink]

\* new Date(`0, ${part}`).toString(): a date string made from the part, or
\* "Invalid Date" (an undefined part always is one)
DateToString(part) ==
    IF part = Undefined THEN InvalidDate ELSE <<"Date 0, ">> \o part

NoDay == [isSunday |-> FALSE, isMonday |-> FALSE, isTuesday |-> FALSE,
          isWednesday |-> FALSE, isThursday |-> FALSE]

DayFlagsEveryDay(days) ==
    [isSunday |-> Includes(days, <<"U">>), isMonday |-> Includes(days, <<"M">>),
     isTuesday |-> Includes(days, <<"T">>), isWednesday |-> Includes(days, <<"W">>),
     isThursday |-> Includes(days, <<"R">>)]

DayFlags(days) ==
    IF Includes(days, <<"U">>) THEN [NoDay EXCEPT !.isSunday = TRUE]
    ELSE IF Includes(days, <<"M">>) THEN [NoDay EXCEPT !.isMonday = TRUE]
    ELSE IF Includes(days, <<"T">>) THEN [NoDay EXCEPT !.isTuesday = TRUE]
    ELSE IF Includes(days, <<"W">>) THEN [NoDay EXCEPT !.isWednesday = TRUE]
    ELSE IF Includes(days, <<"R">>) THEN [NoDay EXCEPT !.isThursday = TRUE]
    ELSE NoDay

\* the first branch of the exception for MTH 103
LabRemap(crnTitle) ==
    Len(crnTitle) = 5 /\ Includes(At(crnTitle, 1), LabWord)

ELipoRemapInTitle(crnTitle) ==
    ~LabRemap(crnTitle) /\ Includes(At(crnTitle, 0), Marker)

\* the else-if branch: no test of the length
ELipoRemap(crnTitle) ==
    ~LabRemap(crnTitle) /\ Includes(At(crnTitle, 1), Marker)

\* x || null
OrNull(x) == IF Truthy(x) THEN x ELSE Null

\* parseInt(x) || null: NaN and 0 are falsy
CreditsOf(x) ==
    LET n == ParseInt(x)
    IN  IF n.nan \/ n.val = 0 THEN Null ELSE Num(n.val)

\* the instructor stored on the course record: no trim
InstructorOf(cell) == At(Split(cell, PMark), 0)

\* the name of the instructor record: trimmed
InstructorName(cell) == Trim(At(Split(cell, PMark), 0))

EmailThrows(instructor, href) ==
    /\ instructor # TBA
    /\ href # NoLink
    /\ At(Split(href, Mailto), 1) = Undefined

EmailOf(instructor, href) ==
    IF instructor = TBA THEN NoneWord
    ELSE IF href # NoLink THEN Trim(At(Split(href, Mailto), 1))
    ELSE NoneWord

\* the reads that throw a TypeError: split of an undefined token, [0] of a
\* null match, innerText of a missing cell, trim of an undefined split part
ExtractThrows(e) ==
    LET crnTitle == Split(e.header, SepDash)
        tbl == e.classTable
    IN  \/ At(crnTitle, 2) = Undefined
        \/ tbl.present /\ \E k \in {1, 2, 3, 4, 6, 7} : At(tbl.td, k) = Undefined
        \/ MatchAfter(e.descriptionText, LevelsLabel) = NoMatch
        \/ MatchBefore(e.descriptionText, ScheduleWord) = NoMatch
        \/ MatchBefore(e.descriptionText, CreditsWord) = NoMatch
        \/ tbl.present /\ EmailThrows(InstructorOf(At(tbl.td, 7)), tbl.href)
        \/ (LabRemap(crnTitle) \/ ELipoRemap(crnTitle)) /\ At(crnTitle, 3) = Undefined

\* descriptionText.match(/(?<=Levels: ).*/g)[0] || null
LevelsOf(text) == OrNull(MatchAfter(text, LevelsLabel))

\* null unless descriptionText.match(/(?<=Attributes: ).*/g) is not null
AttributesOf(text) ==
    IF MatchAfter(text, AttributesLabel) # NoMatch
    THEN MatchAfter(text, AttributesLabel) ELSE Null

\* crnTitle.length === 5 || td[6].innerText === 'Lab'
IsLabOf(crnTitle, type) == Bool(Len(crnTitle) = 5 \/ type = LabWord)

SeatsAvailableAlways(seats) == True

\* td[3].innerText === 'Y'
SeatsAvailableOf(seats) == Bool(seats = <<"Y">>)

\* info, for an entry on which nothing throws
InfoOf(e) ==
    LET crnTitle == Split(e.header, SepDash)
        text == e.descriptionText
        tbl == e.classTable
        td(k) == At(tbl.td, k)
        days == IF tbl.present THEN DayFlags(td(2)) ELSE NoDay
        remap == LabRemap(crnTitle) \/ ELipoRemap(crnTitle)
    IN  [crn |-> IF remap THEN At(crnTitle, 2) ELSE At(crnTitle, 1),
         subject |-> IF remap THEN At(Split(At(crnTitle, 3), Space), 0)
                              ELSE At(Split(At(crnTitle, 2), Space), 0),
         classTitle |-> IF remap THEN At(crnTitle, 0) \o Space \o At(crnTitle, 1)
                                 ELSE At(crnTitle, 0),
         classShortName |-> IF remap THEN At(crnTitle, 3) ELSE At(crnTitle, 2),
         classNumber |-> IF remap THEN At(Split(At(crnTitle, 3), Space), 1)
                                  ELSE At(Split(At(crnTitle, 2), Space), 1),
         classSection |-> IF remap THEN At(crnTitle, 4) ELSE At(crnTitle, 3),
         classType |-> IF tbl.present THEN td(6) ELSE Null,
         isLab |-> IF tbl.present
                   THEN IsLabOf(crnTitle, td(6))
                   ELSE Null,
         instructor |-> IF tbl.present THEN InstructorOf(td(7)) ELSE Null,
         startTime |-> IF tbl.present
                       THEN DateToString(At(Split(td(1), SepDash), 0)) ELSE Null,
         endTime |-> IF tbl.present
                     THEN DateToString(At(Split(td(1), SepDash), 1)) ELSE Null,
         isSunday |-> Bool(days.isSunday),
         isMonday |-> Bool(days.isMonday),
         isTuesday |-> Bool(days.isTuesday),
         isWednesday |-> Bool(days.isWednesday),
         isThursday |-> Bool(days.isThursday),
         levels |-> LevelsOf(text),
         attributes |-> AttributesOf(text),
         scheduleType |-> OrNull(MatchBefore(text, ScheduleWord)),
         credits |-> CreditsOf(MatchBefore(text, CreditsWord)),
         classroom |-> IF tbl.present THEN td(4) ELSE Null,
         seatsAvailable |-> IF tbl.present THEN SeatsAvailableOf(td(3)) ELSE Null]

\* instructorInfo, for an entry with a table
InstructorInfoOf(e) ==
    [name |-> InstructorName(At(e.classTable.td, 7)),
     email |-> EmailOf(InstructorOf(At(e.classTable.td, 7)), e.classTable.href)]

\* the evaluation over all 'th a' elements: crnInfo gets one record per
\* header, instructorInfo one record per header that has a table, both in
\* document order
CrnInfoOf(doc) == [i \in 1..Len(doc) |-> InfoOf(doc[i])]

HasTable(e) == e.classTable.present

InstructorInfosOf(doc) ==
    LET tabled == SelectSeq(doc, HasTable)
    IN  [i \in 1..Len(tabled) |-> InstructorInfoOf(tabled[i])]

DocThrows(doc) == \E i \in 1..Len(doc) : ExtractThrows(doc[i])

NoResults == [crnInfo |-> <<>>, instructorInfo |-> <<>>]

TotalResultsOf(doc) ==
    [crnInfo |-> CrnInfoOf(doc), instructorInfo |-> InstructorInfosOf(doc)]

(***************************************************************************)
(* The store: each table is the sequence of its rows in insertion order    *)
(* (the auto-incremented id is the position).                              *)
(***************************************************************************)
\* the column each reference table is looked up by
SubjectKey == "shortName"
InstructorKey == "name"
LevelKey == "level"
AttributeKey == "attribute"

IsNewRecordByFirstSeen(table, key, row) ==
    \A k \in 1..Len(table) : table[k].firstSeen # row.firstSeen

\* res[0]._options.isNewRecord of Model.findOrCreate: no row has the key
IsNewRecord(table, key, row) ==
    \A k \in 1..Len(table) : table[k][key] # row[key]

FindOrCreateAlwaysInserts(table, key, row) == Append(table, row)

FindOrCreateOverwrites(table, key, row) ==
    IF IsNewRecord(table, key, row) THEN Append(table, row)
    ELSE [k \in 1..Len(table) |->
             IF table[k][key] = row[key] THEN row ELSE table[k]]

\* Model.findOrCreate({where: key, defaults: row}): the table afterwards
FindOrCreate(table, key, row) ==
    IF IsNewRecord(table, key, row) THEN Append(table, row) ELSE table

RECURSIVE UpsertAttributes(_, _, _)
UpsertAttributes(table, attributesArr, termID) ==
    IF attributesArr = <<>> THEN table
    ELSE UpsertAttributes(
             FindOrCreate(table, AttributeKey,
                          [attribute |-> Head(attributesArr), firstSeen |-> termID]),
             Tail(attributesArr), termID)

UpsertLevelsFirstOnly(table, levelsArr, termID) ==
    IF levelsArr = <<>> THEN table
    ELSE FindOrCreate(table, LevelKey,
                      [level |-> Head(levelsArr), firstSeen |-> termID])

RECURSIVE UpsertLevels(_, _, _)
UpsertLevels(table, levelsArr, termID) ==
    IF levelsArr = <<>> THEN table
    ELSE UpsertLevels(
             FindOrCreate(table, LevelKey,
                          [level |-> Head(levelsArr), firstSeen |-> termID]),
             Tail(levelsArr), termID)

CourseRowUntagged(info, termID) ==
    [f \in DOMAIN info \cup {"termID"} |->
        IF f = "termID" THEN Null
        ELSE IF info[f] = Undefined THEN Null ELSE info[f]]

\* Model.create(info): an undefined property is stored as NULL
CourseRow(info, termID) ==
    [f \in DOMAIN info \cup {"termID"} |->
        IF f = "termID" THEN termID
        ELSE IF info[f] = Undefined THEN Null ELSE info[f]]

(***************************************************************************)
(* Term discovery: the evaluation over 'option[value]'.                    *)
(***************************************************************************)
FilterOptionsKeepsNone(result) ==
    [k \in 1..Len(result) |->
        [termID |-> result[k].value,
         termName |-> Replace(result[k].innerText, ViewOnly, <<>>)]]

RECURSIVE FilterOptions(_)
FilterOptions(result) ==
    IF result = <<>> THEN <<>>
    ELSE (IF Head(result).innerText # NoneLabel
          THEN <<[termID |-> Head(result).value,
                  termName |-> Replace(Head(result).innerText, ViewOnly, <<>>)]>>
          ELSE <<>>)
         \o FilterOptions(Tail(result))

\* Array.prototype.sort with the comparator of the code: a stable insertion
\* of each element after the elements that are not greater than it
RECURSIVE InsertSorted(_, _)
InsertSorted(sorted, x) ==
    IF sorted = <<>> THEN <<x>>
    ELSE IF StrGreater(Head(sorted).termID, x.termID)
         THEN <<x>> \o sorted
         ELSE <<Head(sorted)>> \o InsertSorted(Tail(sorted), x)

SortTermsAsListed(a) == a

RECURSIVE SortTerms(_)
SortTerms(a) ==
    IF a = <<>> THEN <<>>
    ELSE InsertSorted(SortTerms(SubSeq(a, 1, Len(a) - 1)), a[Len(a)])

TermsOf(result) == SortTerms(FilterOptions(result))

(***************************************************************************)
(* What the upstream pages can show.  Join builds a text from its parts.   *)
(***************************************************************************)
RECURSIVE Join(_, _)
Join(parts, sep) ==
    IF parts = <<>> THEN <<>>
    ELSE IF Len(parts) = 1 THEN Head(parts)
    ELSE Head(parts) \o sep \o Join(Tail(parts), sep)

RECURSIVE SeqsUpTo(_, _)
SeqsUpTo(S, n) ==
    IF n = 0 THEN {<<>>}
    ELSE LET shorter == SeqsUpTo(S, n - 1)
         IN  shorter \cup {Append(q, x) : q \in shorter, x \in S}

\* the options of the term selector
TermOptions ==
    {[value |-> ProbeTerm, innerText |-> <<"F", "0", "5">>],
     [value |-> <<"2", "0", "0", "6", "1", "0">>,
      innerText |-> <<"S", "0", "6">> \o ViewOnly],
     [value |-> <<>>, innerText |-> NoneLabel]}

OptionLists == SeqsUpTo(TermOptions, MaxOptions)

\* the subject selector: its innerText and the values of its options
SubjectPages ==
    {[innerText |-> <<"C", "e">>, values |-> <<(<<"C">>)>>],
     [innerText |-> <<"C", "x", "\n", "M", "a", "\n">>,
      values |-> <<(<<"C">>), (<<"M">>)>>],
     [innerText |-> <<"C", "e", "\n", "M", "a">>, values |-> <<(<<"C">>)>>]}

StdText ==
    <<"L", "e", "v", "e", "l", "s", ":", " ", "U", "\n">>
    \o <<"L", " ", "S", "c", "h", "e", "d", "u", "l", "e", "\n">>
    \o <<"3", ".", "0", " ", "C", "r", "e", "d", "i", "t", "s">>

TwoLevelsText ==
    <<"L", "e", "v", "e", "l", "s", ":", " ", "U", ",", " ", "G", "\n">>
    \o <<"A", "t", "t", "r", "i", "b", "u", "t", "e", "s", ":", " ", "X", ",", " ", "Y", "\n">>
    \o <<"L", " ", "S", "c", "h", "e", "d", "u", "l", "e", "\n">>
    \o <<"3", ".", "0", " ", "C", "r", "e", "d", "i", "t", "s">>

TwoLevelsOnlyText ==
    <<"L", "e", "v", "e", "l", "s", ":", " ", "U", ",", " ", "G", "\n">>
    \o <<"L", " ", "S", "c", "h", "e", "d", "u", "l", "e", "\n">>
    \o <<"3", ".", "0", " ", "C", "r", "e", "d", "i", "t", "s">>

NoLevelsText ==
    <<"L", " ", "S", "c", "h", "e", "d", "u", "l", "e", "\n">>
    \o <<"3", ".", "0", " ", "C", "r", "e", "d", "i", "t", "s">>

NoScheduleText ==
    <<"L", "e", "v", "e", "l", "s", ":", " ", "U", "\n">>
    \o <<"3", ".", "0", " ", "C", "r", "e", "d", "i", "t", "s">>

NoCreditsText ==
    <<"L", "e", "v", "e", "l", "s", ":", " ", "U", "\n">>
    \o <<"L", " ", "S", "c", "h", "e", "d", "u", "l", "e">>

EmptyLevelsText ==
    <<"L", "e", "v", "e", "l", "s", ":", " ", "\n">>
    \o <<"L", " ", "S", "c", "h", "e", "d", "u", "l", "e", "\n">>
    \o <<"0", ".", "0", " ", "C", "r", "e", "d", "i", "t", "s">>

MailJ == Mailto \o <<"j", "@", "a">>

\* a table of eight cells: time, days, seats, classroom, type, instructor
TableOf(days, type, instructor, href) ==
    [present |-> TRUE,
     td |-> <<(<<"x">>), <<"9", " ", "a", "m">> \o SepDash \o <<"1", " ", "p", "m">>,
              days, <<"Y">>, <<"R", "1">>, <<"d">>, type, instructor>>,
     href |-> href]

Lec == <<"L", "e", "c">>

Header4 == <<"A", " ", "-", " ", "1", " ", "-", " ", "C", " ", "2", " ", "-", " ", "1">>

Header4M == <<"B", " ", "-", " ", "2", " ", "-", " ", "M", " ", "1", " ", "-", " ", "1">>

Header5Lab ==
    <<"A", " ", "-", " ", "L", "a", "b", " ", "-", " ", "3", " ", "-", " ",
      "C", " ", "2", " ", "-", " ", "2">>

EntryPlain ==
    [header |-> Header4, descriptionText |-> StdText,
     classTable |-> TableOf(<<"M", "W">>, Lec, <<"J">>, MailJ)]

EntryPrimary ==
    [header |-> Header4, descriptionText |-> StdText,
     classTable |-> TableOf(<<"U", "T">>, Lec, <<"J", " ">> \o PMark, MailJ)]

EntryOther ==
    [header |-> Header4M, descriptionText |-> StdText,
     classTable |-> TableOf(<<"R">>, LabWord, <<"K">>, NoLink)]

EntryNoTable ==
    [header |-> Header4, descriptionText |-> StdText, classTable |-> NoTable]

EntryNoLevels ==
    [header |-> Header4, descriptionText |-> NoLevelsText, classTable |-> NoTable]

EntryLab ==
    [header |-> Header5Lab, descriptionText |-> TwoLevelsText,
     classTable |-> TableOf(<<"T">>, LabWord, TBA, NoLink)]

\* the listing pages of a term: the header/detail pairs in document order
Listings ==
    {<<EntryPlain>>,
     <<EntryNoTable, EntryPrimary>>,
     <<EntryLab, EntryNoTable>>,
     <<EntryNoLevels>>,
     <<EntryPlain, EntryOther>>}

\* the subject code under which the upstream lists a section: the first word
\* of the "SUBJ NNN" token, the last but one of its header
ListedSubject(e) ==
    LET T == Split(e.header, SepDash)
    IN  At(Split(T[Len(T) - 1], Space), 0)

\* the search is submitted with the subjects of the selector selected: the
\* listing page shows sections of these subjects only
ListingsFor(selected) ==
    {doc \in Listings :
        \A k \in 1..Len(doc) :
            \E j \in 1..Len(selected) : selected[j] = ListedSubject(doc[k])}

(***************************************************************************)
(* The state of a run.                                                     *)
(***************************************************************************)
VARIABLES
    pc,                 \* the stage the run is in (where it stopped, once exited)
    exitCode,           \* Running, or the code the process exited with
    err,                \* the error caught by startCrawl().catch
    VERBOSE,            \* process.env.VERBOSE is set
    optionPage,         \* the option[value] elements of the loaded term page
    terms,              \* startCrawl: the discovered terms, sorted
    ti,                 \* startCrawl: terms[ti] is the term being crawled (1-based)
    semesters, subjects, instructors, levels, attributes, CRNS,   \* the tables
    subjectFullName, subjectShortName,
    si,                 \* crawl: i of the subject loop
    listing,            \* the header/detail pairs of the loaded listing page
    totalResults,
    ci,                 \* crawl: i of the persistence loop
    newSubjectCount, newInstructorCount, newLevelCount, newAttributeCount,
    logged,             \* the statistics line of each completed term
    upstream            \* what the pages showed for each term crawled so far

vars == <<pc, exitCode, err, VERBOSE, optionPage, terms, ti, semesters, subjects, instructors,
          levels, attributes, CRNS, subjectFullName, subjectShortName, si, listing,
          totalResults, ci, newSubjectCount, newInstructorCount, newLevelCount,
          newAttributeCount, logged, upstream>>

storeVars == <<semesters, subjects, instructors, levels, attributes, CRNS>>
countVars == <<newSubjectCount, newInstructorCount, newLevelCount, newAttributeCount>>
pageVars == <<subjectFullName, subjectShortName, si, listing, totalResults, ci>>

Running == 0 - 1
NoError == "none"

running == exitCode = Running

termID == terms[ti].termID

Init ==
    /\ pc = "discover"
    /\ exitCode = Running
    /\ err = NoError
    /\ VERBOSE \in BOOLEAN
    /\ optionPage = <<>>
    /\ terms = <<>>
    /\ ti = 0
    /\ semesters = <<>> /\ subjects = <<>> /\ instructors = <<>>
    /\ levels = <<>> /\ attributes = <<>> /\ CRNS = <<>>
    /\ subjectFullName = <<>> /\ subjectShortName = <<>> /\ si = 0
    /\ listing = <<>> /\ totalResults = NoResults /\ ci = 0
    /\ newSubjectCount = 0 /\ newInstructorCount = 0
    /\ newLevelCount = 0 /\ newAttributeCount = 0
    /\ logged = <<>>
    /\ upstream = <<>>

\* startCrawl().catch: log the error and process.exit(1); pc stays where it was
QuitSwallows(e) ==
    /\ exitCode' = exitCode
    /\ err' = e

QuitWithZero(e) ==
    /\ exitCode' = 0
    /\ err' = e

Quit(e) ==
    /\ exitCode' = 1
    /\ err' = e

(***************************************************************************)
(* startCrawl                                                              *)
(***************************************************************************)
HasProbe(options) == \E k \in 1..Len(options) : options[k].value = ProbeTerm

\* the term page loads with the option 200520: the terms are read, sorted
\* and bulk-created
DiscoverTerms ==
    /\ running /\ pc = "discover"
    /\ \E options \in OptionLists :
        /\ HasProbe(options)
        /\ optionPage' = options
        /\ terms' = TermsOf(options)
        /\ semesters' = TermsOf(options)
    /\ pc' = "loop"
    /\ UNCHANGED <<exitCode, err, VERBOSE, ti, subjects, instructors, levels,
                   attributes, CRNS, pageVars, countVars, logged, upstream>>

\* waitForSelector('option[VALUE="200520"]') times out
DiscoverTimeout ==
    /\ running /\ pc = "discover"
    /\ Quit("TimeoutError")
    /\ UNCHANGED <<pc, VERBOSE, optionPage, terms, ti, storeVars, pageVars, countVars, logged,
                   upstream>>

\* the loop over the terms calls crawl for the next term
StartTerm ==
    /\ running /\ pc = "loop"
    /\ ti < Len(terms)
    /\ ti' = ti + 1
    /\ pc' = "select"
    \* page.goto loads the term page anew
    /\ optionPage' = <<>>
    /\ newSubjectCount' = 0 /\ newInstructorCount' = 0
    /\ newLevelCount' = 0 /\ newAttributeCount' = 0
    /\ UNCHANGED <<exitCode, err, VERBOSE, terms, storeVars, pageVars, logged,
                   upstream>>

\* the loop is over: process.exit(0)
Finish ==
    /\ running /\ pc = "loop"
    /\ ti = Len(terms)
    /\ pc' = "done"
    /\ exitCode' = 0
    /\ UNCHANGED <<err, VERBOSE, optionPage, terms, ti, storeVars, pageVars, countVars, logged,
                   upstream>>

(***************************************************************************)
(* crawl                                                                   *)
(***************************************************************************)
\* the term is selected and submitted; the subject selector is read
SelectTerm ==
    /\ running /\ pc = "select"
    /\ \E page \in SubjectPages :
        /\ subjectFullName' = Split(Trim(page.innerText), Newline)
        /\ subjectShortName' = page.values
        /\ upstream' = Append(upstream, [values |-> page.values, listing |-> <<>>])
    /\ si' = 0
    /\ pc' = "subjects"
    /\ UNCHANGED <<exitCode, err, VERBOSE, optionPage, terms, ti, storeVars, listing,
                   totalResults, ci, countVars, logged>>

\* one of the waits for the term option, the submit button or the subject
\* selector times out
SelectTermTimeout ==
    /\ running /\ pc = "select"
    /\ Quit("TimeoutError")
    /\ UNCHANGED <<pc, VERBOSE, optionPage, terms, ti, storeVars, pageVars, countVars, logged,
                   upstream>>

\* one iteration of the subject loop
UpsertSubject ==
    /\ running /\ pc = "subjects"
    /\ si < Len(subjectFullName)
    /\ LET row == [shortName |-> At(subjectShortName, si),
                   longName |-> At(subjectFullName, si),
                   firstSeen |-> termID]
           isNew == IsNewRecord(subjects, SubjectKey, row)
       IN  IF row.shortName = Undefined
           THEN \* where: {shortName: undefined} is the library's to decide: a
                \* query builder that validates the where clause rejects the
                \* call; one that drops the undefined value looks up without a
                \* condition, finds the first row and creates nothing
                \/ /\ Quit("Error")
                   /\ UNCHANGED <<subjects, si, newSubjectCount>>
                \/ /\ subjects # <<>>
                   /\ si' = si + 1
                   /\ UNCHANGED <<subjects, newSubjectCount, exitCode, err>>
           ELSE /\ subjects' = FindOrCreate(subjects, SubjectKey, row)
                /\ IF isNew /\ VERBOSE
                   THEN \* subjects[i] is undefined: the log line throws
                        /\ Quit("TypeError")
                        /\ UNCHANGED <<si, newSubjectCount>>
                   ELSE /\ newSubjectCount' =
                               IF isNew THEN newSubjectCount + 1 ELSE newSubjectCount
                        /\ si' = si + 1
                        /\ UNCHANGED <<exitCode, err>>
    /\ UNCHANGED <<pc, VERBOSE, optionPage, terms, ti, semesters, instructors, levels, attributes,
                   CRNS, subjectFullName, subjectShortName, listing, totalResults, ci,
                   newInstructorCount, newLevelCount, newAttributeCount, logged,
                   upstream>>

\* all subjects are selected and submitted; the listing page loads
FetchListing ==
    /\ running /\ pc = "subjects"
    /\ si = Len(subjectFullName)
    /\ \E doc \in ListingsFor(subjectShortName) :
        /\ listing' = doc
        /\ upstream' = [upstream EXCEPT ![Len(upstream)].listing = doc]
    /\ pc' = "extract"
    /\ UNCHANGED <<exitCode, err, VERBOSE, optionPage, terms, ti, storeVars, subjectFullName,
                   subjectShortName, si, totalResults, ci, countVars, logged>>

\* one of the waits for the listing page rejects
FetchListingTimeout ==
    /\ running /\ pc = "subjects"
    /\ si = Len(subjectFullName)
    /\ Quit("TimeoutError")
    /\ UNCHANGED <<pc, VERBOSE, optionPage, terms, ti, storeVars, pageVars, countVars, logged,
                   upstream>>

\* the evaluation over 'th a': totalResults, or the TypeError it throws
Extract ==
    /\ running /\ pc = "extract"
    /\ IF DocThrows(listing)
       THEN /\ Quit("TypeError")
            /\ UNCHANGED <<pc, totalResults, ci>>
       ELSE /\ totalResults' = TotalResultsOf(listing)
            /\ ci' = 0
            /\ pc' = "persist"
            /\ UNCHANGED <<exitCode, err>>
    /\ UNCHANGED <<VERBOSE, optionPage, terms, ti, storeVars, subjectFullName, subjectShortName,
                   si, listing, countVars, logged, upstream>>

\* one iteration of the persistence loop: the instructor, the attributes and
\* the levels are upserted, then the course is created
PersistCourse ==
    /\ running /\ pc = "persist"
    /\ ci < Len(totalResults.crnInfo)
    /\ LET info == At(totalResults.crnInfo, ci)
           \* totalResults.instructorInfo[i] is an object or undefined
           hasInstructorInfo == ci < Len(totalResults.instructorInfo)
           instructorInfo == totalResults.instructorInfo[ci + 1]
           instructorRow == [name |-> instructorInfo.name,
                             email |-> instructorInfo.email,
                             firstSeen |-> termID]
           attributesArr == IF Truthy(info.attributes)
                            THEN Split(info.attributes, CommaSep) ELSE <<>>
           levelsArr == IF Truthy(info.levels)
                        THEN Split(info.levels, CommaSep) ELSE <<>>
           newInstructors == IF hasInstructorInfo
                             THEN FindOrCreate(instructors, InstructorKey, instructorRow)
                             ELSE instructors
           newAttributes == UpsertAttributes(attributes, attributesArr, termID)
           newLevels == UpsertLevels(levels, levelsArr, termID)
       IN  /\ instructors' = newInstructors
           /\ attributes' = newAttributes
           /\ levels' = newLevels
           /\ newInstructorCount' =
                  newInstructorCount + (Len(newInstructors) - Len(instructors))
           \* both the attribute loop and the level loop count into
           \* newAttributeCount
           /\ newAttributeCount' =
                  newAttributeCount + (Len(newAttributes) - Len(attributes))
                                    + (Len(newLevels) - Len(levels))
           /\ CRNS' = Append(CRNS, CourseRow(info, termID))
    /\ ci' = ci + 1
    /\ UNCHANGED <<pc, exitCode, err, VERBOSE, optionPage, terms, ti, semesters, subjects,
                   subjectFullName, subjectShortName, si, listing, totalResults,
                   newSubjectCount, newLevelCount, logged, upstream>>

\* the store rejects the first call of the pending iteration
StoreRejects ==
    /\ running
    /\ \/ pc = "subjects" /\ si < Len(subjectFullName)
       \/ pc = "persist" /\ ci < Len(totalResults.crnInfo)
    /\ Quit("StoreError")
    /\ UNCHANGED <<pc, VERBOSE, optionPage, terms, ti, storeVars, pageVars, countVars, logged,
                   upstream>>

\* the statistics line; crawl returns
FinishTerm ==
    /\ running /\ pc = "persist"
    /\ ci = Len(totalResults.crnInfo)
    /\ logged' = Append(logged, [termID |-> termID,
                                 crns |-> Len(totalResults.crnInfo),
                                 newSubjects |-> newSubjectCount,
                                 newInstructors |-> newInstructorCount,
                                 newAttributes |-> newAttributeCount,
                                 newLevels |-> newLevelCount])
    /\ pc' = "loop"
    /\ UNCHANGED <<exitCode, err, VERBOSE, optionPage, terms, ti, storeVars, pageVars, countVars,
                   upstream>>

Next ==
    \/ DiscoverTerms
    \/ DiscoverTimeout
    \/ StartTerm
    \/ Finish
    \/ SelectTerm
    \/ SelectTermTimeout
    \/ UpsertSubject
    \/ FetchListing
    \/ FetchListingTimeout
    \/ Extract
    \/ PersistCourse
    \/ StoreRejects
    \/ FinishTerm

Spec == Init /\ [][Next]_vars

(***************************************************************************)
(* C1: each reference table holds at most one row per natural key, after   *)
(* any sequence of upserts over any number of terms: an upsert of a key    *)
(* that already has a row inserts nothing.                                 *)
(***************************************************************************)
UniqueKeys(table, key) ==
    \A a, b \in 1..Len(table) : table[a][key] = table[b][key] => a = b

C1_OneRowPerKey ==
    /\ UniqueKeys(subjects, SubjectKey)
    /\ UniqueKeys(instructors, InstructorKey)
    /\ UniqueKeys(levels, LevelKey)
    /\ UniqueKeys(attributes, AttributeKey)

\* two terms were crawled to the end and showed the same subjects and the
\* same listing, with instructors, levels and attributes in it
C1_Witness ==
    /\ Len(logged) = 2
    /\ upstream[1] = upstream[2]
    /\ Len(subjects) = 1 /\ Len(instructors) = 1
    /\ Len(levels) = 2 /\ Len(attributes) = 2

(***************************************************************************)
(* C2: whenever a CourseSection row is persisted, the reference tables     *)
(* already hold a Subject row for its subject, an Instructor row for its   *)
(* instructor (when it has one), a Level row for every ", "-separated      *)
(* token of its levels and an Attribute row for every token of its         *)
(* attributes.  Reference rows are never deleted, so a course row that     *)
(* lacks one of them at any time lacked it when it was persisted.          *)
(***************************************************************************)
HasRow(table, key, value) == \E k \in 1..Len(table) : table[k][key] = value

Referenced(course) ==
    /\ HasRow(subjects, SubjectKey, course.subject)
    /\ course.instructor # Null => HasRow(instructors, InstructorKey, course.instructor)
    /\ course.levels # Null =>
           \A t \in 1..Len(Split(course.levels, CommaSep)) :
               HasRow(levels, LevelKey, Split(course.levels, CommaSep)[t])
    /\ course.attributes # Null =>
           \A t \in 1..Len(Split(course.attributes, CommaSep)) :
               HasRow(attributes, AttributeKey, Split(course.attributes, CommaSep)[t])

C2_ReferencesBeforeCourse == \A c \in 1..Len(CRNS) : Referenced(CRNS[c])

(***************************************************************************)
(* C3, as claimed: a failure of a per-term stage does not terminate the    *)
(* run (the term is skipped and the later terms are processed).            *)
(***************************************************************************)
PerTermStages == {"select", "subjects", "extract", "persist"}

C4_DiscoveryFailureIsFatal ==
    (err # NoError /\ pc = "discover") =>
        /\ exitCode = 1
        /\ ti = 0 /\ upstream = <<>>
        /\ semesters = <<>> /\ subjects = <<>> /\ instructors = <<>>
        /\ levels = <<>> /\ attributes = <<>> /\ CRNS = <<>>

C4_Witness == pc = "discover" /\ err = "TimeoutError" /\ ~running

(***************************************************************************)
(* C5: upserting the same batch a second time changes no row count: while  *)
(* a term is crawled whose pages show what the pages of the term before    *)
(* showed, no step changes the number of Subject, Instructor, Level or     *)
(* Attribute rows.                                                         *)
(***************************************************************************)
SameBatchAsBefore ==
    /\ ti >= 2 /\ Len(upstream) = ti
    /\ upstream[ti].values = upstream[ti - 1].values
    /\ upstream[ti].listing \in {<<>>, upstream[ti - 1].listing}

C5_SecondUpsertIsIdempotent ==
    [][SameBatchAsBefore =>
          /\ Len(subjects') = Len(subjects)
          /\ Len(instructors') = Len(instructors)
          /\ Len(levels') = Len(levels)
          /\ Len(attributes') = Len(attributes)]_vars

\* the second of two identical batches has been upserted to the end
C5_Witness ==
    /\ Len(logged) = 2 /\ ti = 2
    /\ upstream[1] = upstream[2]
    /\ Len(upstream[2].listing) = 2
    /\ Len(instructors) = 2 /\ Len(levels) = 1 /\ Len(CRNS) = 4

(***************************************************************************)
(* C6: the firstSeen of every reference row is the first-processed term    *)
(* in which its key was observed, and no step changes a row that exists.   *)
(***************************************************************************)
TokensOf(list) ==
    IF Truthy(list) THEN {Split(list, CommaSep)[t] : t \in 1..Len(Split(list, CommaSep))}
    ELSE {}

\* the keys a term's pages showed for a table
ObservedKeys(page, key) ==
    IF key = SubjectKey
    THEN {page.values[k] : k \in 1..Len(page.values)}
    ELSE IF DocThrows(page.listing) THEN {}
    ELSE IF key = InstructorKey
    THEN {InstructorName(At(page.listing[k].classTable.td, 7)) :
              k \in {i \in 1..Len(page.listing) : page.listing[i].classTable.present}}
    ELSE IF key = LevelKey
    THEN UNION {TokensOf(LevelsOf(page.listing[k].descriptionText)) :
                    k \in 1..Len(page.listing)}
    ELSE UNION {TokensOf(AttributesOf(page.listing[k].descriptionText)) :
                    k \in 1..Len(page.listing)}

\* the pairs <<j, k>> of a term crawled and a key its pages showed
Observations(key) ==
    UNION {{<<j, k>> : k \in ObservedKeys(upstream[j], key)} :
               j \in 1..Len(upstream)}

FirstSeenIsFirstTerm(table, key) ==
    LET seen == Observations(key)
    IN  \A r \in 1..Len(table) :
            LET seenIn == {j \in 1..Len(upstream) : <<j, table[r][key]>> \in seen}
            IN  /\ seenIn # {}
                /\ table[r].firstSeen = terms[Min(seenIn)].termID

RowsKept(table, after) ==
    /\ Len(after) >= Len(table)
    /\ \A r \in 1..Len(table) : after[r] = table[r]

FirstSeenEverywhere ==
    /\ FirstSeenIsFirstTerm(subjects, SubjectKey)
    /\ FirstSeenIsFirstTerm(instructors, InstructorKey)
    /\ FirstSeenIsFirstTerm(levels, LevelKey)
    /\ FirstSeenIsFirstTerm(attributes, AttributeKey)

RowsKeptEverywhere ==
    /\ RowsKept(subjects, subjects')
    /\ RowsKept(instructors, instructors')
    /\ RowsKept(levels, levels')
    /\ RowsKept(attributes, attributes')

C6_FirstSeenIsKept == []FirstSeenEverywhere /\ [][RowsKeptEverywhere]_vars

\* subject C was seen in a first term under one long name and in a second,
\* later term under another; its row still has the first term and name
C6_Witness ==
    /\ Len(logged) = 2
    /\ terms[1].termID # terms[2].termID
    /\ subjectFullName[1] = <<"C", "x">>
    /\ subjects[1].shortName = <<"C">>
    /\ subjects[1].longName = <<"C", "e">>
    /\ subjects[1].firstSeen = terms[1].termID
    /\ instructors # <<>> /\ instructors[1].firstSeen = terms[1].termID
    /\ \E k \in 1..Len(upstream[2].listing) :
           InstructorInfoOf(upstream[2].listing[k]).name = instructors[1].name

(***************************************************************************)
(* The extraction on its own: the listing page of a first term is loaded   *)
(* (one subject, C, was upserted) and shows one header/detail pair, drawn  *)
(* from three families: every header of three to MaxTokens tokens with    *)
(* and without a table, every meeting-days cell of up to MaxDaysLen        *)
(* letters, and every pairing of a detail text and a table.                *)
(***************************************************************************)
HeaderTokens == {<<"A">>, LabWord, Marker, <<"C", " ", "2">>}

Headers ==
    {Join(T, SepDash) :
        T \in {q \in SeqsUpTo(HeaderTokens, MaxTokens) : Len(q) >= 3}}

DayLetters == {"U", "M", "T", "W", "R", "S"}

DayCells == SeqsUpTo(DayLetters, MaxDaysLen)

DetailTexts ==
    {StdText, TwoLevelsText, TwoLevelsOnlyText, NoLevelsText, NoScheduleText,
     NoCreditsText, EmptyLevelsText}

PlainTable == TableOf(<<"M", "W">>, Lec, <<"J">>, MailJ)

DetailTables ==
    {NoTable,
     PlainTable,
     TableOf(<<"U">>, LabWord, <<"J", " ">> \o PMark, MailJ),
     TableOf(<<>>, Lec, TBA, NoLink),
     TableOf(<<"R">>, Lec, <<"K">>, NoLink),
     TableOf(<<"T">>, Lec, <<"K">>, <<"k", "@", "a">>),
     TableOf(<<"W">>, Lec, TBA, Mailto \o <<" ", "t", "@", "a", " ">>),
     [PlainTable EXCEPT !.td[4] = <<"F">>],
     [PlainTable EXCEPT !.td = SubSeq(PlainTable.td, 1, 7)]}

ExtractEntries ==
    {[header |-> h, descriptionText |-> StdText, classTable |-> t] :
        h \in Headers, t \in {NoTable, PlainTable}}
    \cup {[header |-> Header4, descriptionText |-> StdText,
           classTable |-> TableOf(d, Lec, <<"J">>, MailJ)] : d \in DayCells}
    \cup {[header |-> h, descriptionText |-> x, classTable |-> t] :
              h \in {Header4, Header5Lab}, x \in DetailTexts, t \in DetailTables}

FirstTerm == [termID |-> ProbeTerm, termName |-> <<"F", "0", "5">>]

InitExtract ==
    /\ pc = "extract"
    /\ exitCode = Running
    /\ err = NoError
    /\ VERBOSE = FALSE
    /\ optionPage = <<>>
    /\ terms = <<FirstTerm>>
    /\ ti = 1
    /\ semesters = <<FirstTerm>>
    /\ subjects = <<[shortName |-> <<"C">>, longName |-> <<"C", "e">>,
                     firstSeen |-> ProbeTerm]>>
    /\ instructors = <<>> /\ levels = <<>> /\ attributes = <<>> /\ CRNS = <<>>
    /\ subjectFullName = <<(<<"C", "e">>)>>
    /\ subjectShortName = <<(<<"C">>)>>
    /\ si = 1
    /\ \E e \in ExtractEntries :
        /\ listing = <<e>>
        /\ upstream = <<[values |-> <<(<<"C">>)>>, listing |-> <<e>>]>>
    /\ totalResults = NoResults /\ ci = 0
    /\ newSubjectCount = 1 /\ newInstructorCount = 0
    /\ newLevelCount = 0 /\ newAttributeCount = 0
    /\ logged = <<>>

NextExtract == Extract

SpecExtract == InitExtract /\ [][NextExtract]_vars

\* the evaluation has returned
Extracted == pc = "persist"

\* the evaluation has thrown
ExtractionThrew == pc = "extract" /\ err = "TypeError"

(***************************************************************************)
(* C7: on every extracted course record with a table at most one of the    *)
(* five day flags is true, and it is the flag of the first of the letters  *)
(* U, M, T, W, R (in this order) that occurs in the meeting-days cell;     *)
(* when none occurs no flag is true.                                       *)
(***************************************************************************)
LetterOrder == <<"U", "M", "T", "W", "R">>

FlagNames == <<"isSunday", "isMonday", "isTuesday", "isWednesday", "isThursday">>

Occurring(days) ==
    {k \in 1..Len(LetterOrder) : \E p \in 1..Len(days) : days[p] = LetterOrder[k]}

FlagsSet(info) == {k \in 1..Len(FlagNames) : info[FlagNames[k]] = True}

C7_OneDayFlagByPrecedence ==
    Extracted =>
        \A i \in 1..Len(listing) :
            listing[i].classTable.present =>
                LET occ == Occurring(listing[i].classTable.td[3])
                IN  FlagsSet(totalResults.crnInfo[i]) =
                        IF occ = {} THEN {} ELSE {Min(occ)}

\* a cell naming Monday and then Sunday was extracted: Sunday alone is set
C7_Witness ==
    /\ Extracted
    /\ listing[1].classTable.present
    /\ listing[1].classTable.td[3] = <<"M", "U">>
    /\ totalResults.crnInfo[1].isSunday = True
    /\ totalResults.crnInfo[1].isMonday = False

(***************************************************************************)
(* C8: for every header that splits on " - " into exactly 4 tokens,        *)
(* whatever they contain, the record keeps the 4-token assignment:         *)
(* crn=T[1], subject and number from T[2], title=T[0], short name=T[2],    *)
(* section=T[3].                                                           *)
(***************************************************************************)
C8_FourTokensNeverRemapped ==
    Extracted =>
        \A i \in 1..Len(listing) :
            LET T == Split(listing[i].header, SepDash)
                info == totalResults.crnInfo[i]
            IN  Len(T) = 4 =>
                    /\ info.crn = T[2]
                    /\ info.subject = At(Split(T[3], Space), 0)
                    /\ info.classNumber = At(Split(T[3], Space), 1)
                    /\ info.classTitle = T[1]
                    /\ info.classShortName = T[3]
                    /\ info.classSection = T[4]

(***************************************************************************)
(* C9: for every 5-token header whose second token contains "Lab" or       *)
(* "Targeted eLipo", the record has crn=T[2], subject=split(T[3])[0],      *)
(* courseNumber=split(T[3])[1], title=T[0]+" "+T[1], shortName=T[3],       *)
(* section=T[4], whichever of the two triggered the remap.                 *)
(***************************************************************************)
C9_FiveTokenRemap ==
    Extracted =>
        \A i \in 1..Len(listing) :
            LET T == Split(listing[i].header, SepDash)
                info == totalResults.crnInfo[i]
            IN  (Len(T) = 5 /\ (Includes(T[2], LabWord) \/ Includes(T[2], Marker))) =>
                    /\ info.crn = T[3]
                    /\ info.subject = At(Split(T[4], Space), 0)
                    /\ info.classNumber = At(Split(T[4], Space), 1)
                    /\ info.classTitle = T[1] \o Space \o T[2]
                    /\ info.classShortName = T[4]
                    /\ info.classSection = T[5]

\* a 5-token header with the marker, and no "Lab", as its second token was
\* extracted and remapped
C9_Witness ==
    /\ Extracted
    /\ Len(Split(listing[1].header, SepDash)) = 5
    /\ Split(listing[1].header, SepDash)[2] = Marker
    /\ Split(listing[1].header, SepDash)[4] = <<"C", " ", "2">>
    /\ totalResults.crnInfo[1].crn = Split(listing[1].header, SepDash)[3]
    /\ totalResults.crnInfo[1].subject = <<"C">>
    /\ totalResults.crnInfo[1].classNumber = <<"2">>

(***************************************************************************)
(* C10: a listing whose detail block has no table yields a course record   *)
(* with classType, isLab, instructor, start and end time, classroom and    *)
(* seatsAvailable absent and no instructor record, and its extraction does *)
(* not throw.                                                              *)
(***************************************************************************)
C10_PlaceholderYieldsRecord ==
    \A i \in 1..Len(listing) :
        ~listing[i].classTable.present =>
            /\ ~ExtractionThrew
            /\ Extracted =>
                   LET info == totalResults.crnInfo[i]
                   IN  /\ info.classType = Null /\ info.isLab = Null
                       /\ info.instructor = Null
                       /\ info.startTime = Null /\ info.endTime = Null
                       /\ info.classroom = Null /\ info.seatsAvailable = Null
                       /\ totalResults.instructorInfo = <<>>

(***************************************************************************)
(* C11: for every instructor cell of the form name + " (P)" + anything,    *)
(* the instructor of the course record is exactly name: the marker, the    *)
(* space before it and everything after it are removed.                    *)
(***************************************************************************)
PrimaryMark == Space \o PMark

C11_PrimaryMarkerStripped ==
    Extracted =>
        \A i \in 1..Len(listing) :
            listing[i].classTable.present =>
                LET cell == listing[i].classTable.td[8]
                    at == IndexOf(cell, PrimaryMark)
                IN  at # 0 =>
                        totalResults.crnInfo[i].instructor = SubSeq(cell, 1, at - 1)

(***************************************************************************)
(* C12: for a canonical 4-token header [title, crn, "SUBJ NNN", section]   *)
(* (the crn token is not the "Targeted eLipo" marker) with a data table,   *)
(* the record has crn=T[1], subject and courseNumber the two               *)
(* space-separated parts of T[2], section=T[3], classType=column[6], isLab *)
(* true exactly when column[6] is "Lab", seatsAvailable true exactly when  *)
(* column[3] is "Y", and for the days "MW" isMonday true and isSunday      *)
(* false.                                                                  *)
(***************************************************************************)
Canonical(T) ==
    /\ Len(T) = 4
    /\ ~Includes(T[2], Marker)
    /\ Len(Split(T[3], Space)) = 2

C12_CanonicalRecord ==
    Extracted =>
        \A i \in 1..Len(listing) :
            LET T == Split(listing[i].header, SepDash)
                td == listing[i].classTable.td
                info == totalResults.crnInfo[i]
            IN  (listing[i].classTable.present /\ Canonical(T)) =>
                    /\ info.crn = T[2]
                    /\ info.subject = Split(T[3], Space)[1]
                    /\ info.classNumber = Split(T[3], Space)[2]
                    /\ info.classSection = T[4]
                    /\ info.classType = td[7]
                    /\ info.isLab = True <=> td[7] = LabWord
                    /\ info.isLab \in {True, False}
                    /\ info.seatsAvailable = True <=> td[4] = <<"Y">>
                    /\ info.seatsAvailable \in {True, False}
                    /\ td[3] = <<"M", "W">> =>
                           info.isMonday = True /\ info.isSunday = False

\* "A - 1 - C 2 - 1" with a lecture on MW that has seats was extracted
C12_Witness ==
    /\ Extracted
    /\ listing[1].header = Header4
    /\ listing[1].classTable = PlainTable
    /\ totalResults.crnInfo[1].crn = <<"1">>
    /\ totalResults.crnInfo[1].subject = <<"C">>
    /\ totalResults.crnInfo[1].classNumber = <<"2">>
    /\ totalResults.crnInfo[1].classSection = <<"1">>
    /\ totalResults.crnInfo[1].classType = Lec
    /\ totalResults.crnInfo[1].isLab = False
    /\ totalResults.crnInfo[1].seatsAvailable = True
    /\ totalResults.crnInfo[1].isMonday = True

(***************************************************************************)
(* One term on its own: the listing page of SpecExtract is extracted, its  *)
(* records are persisted into empty Instructor, Level, Attribute and       *)
(* CourseSection tables and the statistics line is written.                *)
(***************************************************************************)
NextTerm ==
    \/ Extract
    \/ PersistCourse
    \/ FinishTerm

SpecTerm == InitExtract /\ [][NextTerm]_vars

(***************************************************************************)
(* C13: a detail block with "Levels: L1, L2" (two different levels) and no *)
(* "Attributes:" label gives a record with levels = "L1, L2" and           *)
(* attributes = null; once it is persisted into empty tables the Level     *)
(* table holds exactly the two rows L1 and L2 and the Attribute table      *)
(* none.                                                                   *)
(***************************************************************************)
TwoLevelsNoAttributes(text) ==
    /\ ~Includes(text, AttributesLabel)
    /\ Includes(text, LevelsLabel)
    /\ LET tokens == Split(MatchAfter(text, LevelsLabel), CommaSep)
       IN  Len(tokens) = 2 /\ tokens[1] # tokens[2]

C13_TwoLevelsNoAttributes ==
    (pc \in {"persist", "loop"} /\ TwoLevelsNoAttributes(listing[1].descriptionText)) =>
        LET text == listing[1].descriptionText
            tokens == Split(MatchAfter(text, LevelsLabel), CommaSep)
            info == totalResults.crnInfo[1]
        IN  /\ info.levels = tokens[1] \o CommaSep \o tokens[2]
            /\ info.attributes = Null
            /\ ci = 1 =>
                   /\ Len(levels) = 2
                   /\ levels[1].level = tokens[1]
                   /\ levels[2].level = tokens[2]
                   /\ attributes = <<>>
                   /\ CRNS[1].levels = info.levels
                   /\ CRNS[1].attributes = Null

\* "Levels: U, G" without attributes was persisted: two Level rows
C13_Witness ==
    /\ pc = "persist" /\ ci = 1
    /\ listing[1].descriptionText = TwoLevelsOnlyText
    /\ totalResults.crnInfo[1].levels = <<"U", ",", " ", "G">>
    /\ Len(levels) = 2 /\ attributes = <<>> /\ Len(CRNS) = 1

(***************************************************************************)
(* C14: the statistics line of a term is exact: its new-subject,           *)
(* new-instructor, new-level and new-attribute counts are the numbers of   *)
(* rows inserted into these tables during the term and its course total    *)
(* is the number of CourseSection rows written for the term.  The tables   *)
(* are empty when the run starts and rows are never deleted, so between    *)
(* two terms the counts reported so far add up to the sizes of the tables. *)
(***************************************************************************)
RECURSIVE Reported(_, _)
Reported(lines, count) ==
    IF lines = <<>> THEN 0
    ELSE Head(lines)[count] + Reported(Tail(lines), count)

C14_StatisticsAreExact ==
    pc = "loop" =>
        /\ Reported(logged, "newSubjects") = Len(subjects)
        /\ Reported(logged, "newInstructors") = Len(instructors)
        /\ Reported(logged, "newLevels") = Len(levels)
        /\ Reported(logged, "newAttributes") = Len(attributes)
        /\ Reported(logged, "crns") = Len(CRNS)

(***************************************************************************)
(* C15: for any option list of the term page, term discovery returns       *)
(* exactly the options whose label is not "None" (each once), each with    *)
(* " (View only)" removed from its label, in ascending order of the term   *)
(* identifier, and one Semester row is written per returned term.          *)
(***************************************************************************)
Discovered == pc = "loop" /\ ti = 0

\* name is the label without its " (View only)"
IsStripped(label, name) ==
    IF Includes(label, ViewOnly)
    THEN /\ ~Includes(name, ViewOnly)
         /\ \E p \in 0..Len(name) :
               label = SubSeq(name, 1, p) \o ViewOnly \o SubSeq(name, p + 1, Len(name))
    ELSE name = label

C15_TermsFilteredAndSorted ==
    Discovered =>
        LET kept == {k \in 1..Len(optionPage) : optionPage[k].innerText # NoneLabel}
        IN  /\ Len(terms) = Cardinality(kept)
            /\ \E f \in [1..Len(terms) -> kept] :
                   /\ \A a, b \in 1..Len(terms) : f[a] = f[b] => a = b
                   /\ \A a \in 1..Len(terms) :
                          /\ terms[a].termID = optionPage[f[a]].value
                          /\ IsStripped(optionPage[f[a]].innerText, terms[a].termName)
            /\ \A a, b \in 1..Len(terms) :
                   a < b => ~StrGreater(terms[a].termID, terms[b].termID)
            /\ semesters = terms

\* the page listed a view-only term before the older term 200520: the two
\* are returned in ascending order, the label without its suffix
C15_Witness ==
    /\ Discovered
    /\ Len(optionPage) = 2
    /\ optionPage[1].innerText = <<"S", "0", "6">> \o ViewOnly
    /\ optionPage[2].value = ProbeTerm
    /\ Len(terms) = 2
    /\ terms[1].termID = ProbeTerm
    /\ terms[2].termName = <<"S", "0", "6">>
    /\ Len(semesters) = 2

(***************************************************************************)
(* C16: the terms are processed one at a time in ascending order of the    *)
(* term identifier: the next term is started only after the statistics     *)
(* line of the current one (all its reference and course writes are done   *)
(* by then), every page read and every store write belongs to the term     *)
(* in progress, and the CourseSection rows are in ascending term order.    *)
(***************************************************************************)
TermsAscending ==
    \A a, b \in 1..Len(terms) :
        a < b => ~StrGreater(terms[a].termID, terms[b].termID)

OneTermInProgress ==
    /\ TermsAscending
    /\ Len(upstream) <= ti
    /\ Len(logged) <= ti /\ Len(logged) >= ti - 1
    /\ \A c \in 1..Len(CRNS) : \E k \in 1..ti : CRNS[c].termID = terms[k].termID
    /\ \A a, b \in 1..Len(CRNS) :
           a < b => ~StrGreater(CRNS[a].termID, CRNS[b].termID)

TermStepsInOrder ==
    /\ ti' # ti => (ti' = ti + 1 /\ Len(logged) = ti /\ pc = "loop")
    /\ (ti >= 1 /\ <<subjects, instructors, levels, attributes, CRNS, upstream>>'
                       # <<subjects, instructors, levels, attributes, CRNS, upstream>>) =>
           /\ ti' = ti
           /\ Len(logged) = ti - 1
           /\ Len(CRNS') > Len(CRNS) => CRNS'[Len(CRNS')].termID = terms[ti].termID

C16_TermsOneAtATime == []OneTermInProgress /\ [][TermStepsInOrder]_vars

\* two different terms were crawled to the end: the rows of the older one
\* come first
C16_Witness ==
    /\ Len(logged) = 2 /\ Len(terms) = 2
    /\ StrGreater(terms[2].termID, terms[1].termID)
    /\ Len(CRNS) >= 2
    /\ CRNS[1].termID = terms[1].termID
    /\ CRNS[Len(CRNS)].termID = terms[2].termID

(***************************************************************************)
(* C17: the extraction returns a course sequence and an instructor         *)
(* sequence that both have one entry per header, in document order: at     *)
(* the position of a header with a data table the instructor record of     *)
(* that table, at the position of a header without one an absent entry.    *)
(***************************************************************************)
C17_ParallelSequences ==
    (pc = "persist" /\ ci = 0) =>
        /\ Len(totalResults.crnInfo) = Len(listing)
        /\ Len(totalResults.instructorInfo) = Len(listing)
        /\ \A i \in 1..Len(listing) :
               /\ totalResults.crnInfo[i] = InfoOf(listing[i])
               /\ listing[i].classTable.present =>
                      totalResults.instructorInfo[i] = InstructorInfoOf(listing[i])
               /\ ~listing[i].classTable.present =>
                      totalResults.instructorInfo[i] \in {Null, Undefined}

(***************************************************************************)
(* C18: when the detail text lacks the "Levels: " label, the " Schedule"   *)
(* word or a parsable " Credits" value, the extraction does not throw and  *)
(* the field concerned (levels, scheduleType, credits) of the record is    *)
(* null.                                                                   *)
(***************************************************************************)
\* the part before " Credits" on its line starts with a number
HasParsableCredits(text) ==
    /\ Includes(text, CreditsWord)
    /\ MatchBefore(text, CreditsWord) # NoMatch
    /\ ~ParseInt(MatchBefore(text, CreditsWord)).nan

\* stated for the header "A - 1 - C 2 - 1" without a table or with the plain
\* one, on which nothing but the detail text can make the extraction throw
C18_AbsentLabelsGiveNull ==
    \A i \in 1..Len(listing) :
        LET text == listing[i].descriptionText
            lacksLevels == ~Includes(text, LevelsLabel)
            lacksSchedule == ~Includes(text, ScheduleWord)
            lacksCredits == ~HasParsableCredits(text)
            plain == listing[i].header = Header4 /\ listing[i].classTable \in {NoTable, PlainTable}
        IN  (plain /\ (lacksLevels \/ lacksSchedule \/ lacksCredits)) =>
                /\ ~ExtractionThrew
                /\ Extracted =>
                       /\ lacksLevels => totalResults.crnInfo[i].levels = Null
                       /\ lacksSchedule => totalResults.crnInfo[i].scheduleType = Null
                       /\ lacksCredits => totalResults.crnInfo[i].credits = Null

(***************************************************************************)
(* C19: for a record with a data table, isLab is true exactly when the     *)
(* 5-token lab remap applied (5 tokens with "Lab" in the second) or        *)
(* column[6] is "Lab"; a 5-token "Targeted eLipo" header whose column[6]   *)
(* is not "Lab" has isLab false.                                           *)
(***************************************************************************)
C19_IsLabOnlyForLabs ==
    Extracted =>
        \A i \in 1..Len(listing) :
            LET T == Split(listing[i].header, SepDash)
                type == listing[i].classTable.td[7]
                labPath == Len(T) = 5 /\ Includes(T[2], LabWord)
            IN  listing[i].classTable.present =>
                    /\ totalResults.crnInfo[i].isLab \in {True, False}
                    /\ totalResults.crnInfo[i].isLab = True <=> (labPath \/ type = LabWord)

(***************************************************************************)
(* C20: the email of the instructor record is "none" when the stripped     *)
(* instructor name is exactly "TBA" or the table has no mail link;         *)
(* otherwise it is the target of the link without its "mailto:" prefix,    *)
(* trimmed; deriving it never throws.                                      *)
(***************************************************************************)
AddressOf(href) ==
    IF StartsWithAt(href, Mailto, 1)
    THEN Trim(SubSeq(href, Len(Mailto) + 1, Len(href)))
    ELSE Trim(href)

\* stated for the header "A - 1 - C 2 - 1" with the standard detail text and
\* a table of all its cells, on which nothing but the email can make the
\* extraction throw
C20_EmailOrNone ==
    \A i \in 1..Len(listing) :
        LET tbl == listing[i].classTable
            name == InstructorName(tbl.td[8])
        IN  (/\ listing[i].header = Header4
             /\ listing[i].descriptionText = StdText
             /\ tbl.present /\ Len(tbl.td) = 8) =>
                /\ ~ExtractionThrew
                /\ Extracted =>
                       totalResults.instructorInfo[1].email =
                           IF name = TBA \/ tbl.href = NoLink
                           THEN NoneWord ELSE AddressOf(tbl.href)

(***************************************************************************)
(* C21: when the subject selector of a term shows long names and short     *)
(* codes of different numbers, this is an error that aborts that term      *)
(* only: the term's listing is never fetched, no Subject row without a     *)
(* short code or a long name is written, and the run does not end with an  *)
(* error (it goes on to the next term).                                    *)
(***************************************************************************)
LengthMismatch ==
    /\ ti >= 1 /\ Len(upstream) = ti
    /\ Len(subjectFullName) # Len(subjectShortName)

C21_MismatchAbortsTermOnly ==
    LengthMismatch =>
        \* "Error" is the rejection of the lookup by an undefined short code
        /\ ~(exitCode = 1 /\ err = "Error")
        /\ pc \notin {"extract", "persist"}
        /\ upstream[ti].listing = <<>>
        /\ \A k \in 1..Len(subjects) :
               /\ subjects[k].shortName \notin {Undefined, Null}
               /\ subjects[k].longName \notin {Undefined, Null}

(***************************************************************************)
(* C22: each extracted course record of a term produces exactly one        *)
(* CourseSection row, tagged with the term being crawled; no row is        *)
(* changed or deleted afterwards; once a term is complete the rows tagged  *)
(* with it are as many as the headers of its listing page (for a term      *)
(* whose identifier no other term of the page has).                        *)
(***************************************************************************)
TaggedWith(id) == {c \in 1..Len(CRNS) : CRNS[c].termID = id}

OwnIdentifier(j) ==
    \A k \in 1..Len(terms) : terms[k].termID = terms[j].termID => k = j

OneRowPerRecord ==
    /\ \A j \in 1..Len(logged) :
           OwnIdentifier(j) =>
               Cardinality(TaggedWith(terms[j].termID)) = Len(upstream[j].listing)
    /\ (pc = "persist" /\ ti >= 1) =>
           /\ Len(CRNS) >= ci
           /\ \A k \in 1..ci :
                  CRNS[Len(CRNS) - ci + k] =
                      [totalResults.crnInfo[k] EXCEPT !.classSection =
                           IF @ = Undefined THEN Null ELSE @]
                      @@ [termID |-> terms[ti].termID]
           /\ OwnIdentifier(ti) => Cardinality(TaggedWith(terms[ti].termID)) = ci

CourseRowsKept ==
    /\ RowsKept(CRNS, CRNS')
    /\ Len(CRNS') <= Len(CRNS) + 1
    /\ Len(CRNS') = Len(CRNS) + 1 => (pc = "persist" /\ ci' = ci + 1)
    /\ ci' = ci + 1 => Len(CRNS') = Len(CRNS) + 1

C22_OneCourseRowPerRecord == []OneRowPerRecord /\ [][CourseRowsKept]_vars

\* two terms of different identifiers are complete, the first with two
\* sections
C22_Witness ==
    /\ Len(logged) = 2
    /\ terms[1].termID # terms[2].termID
    /\ Len(upstream[1].listing) = 2
    /\ Cardinality(TaggedWith(terms[1].termID)) = 2
    /\ Cardinality(TaggedWith(terms[2].termID)) = Len(upstream[2].listing)
    /\ Len(upstream[2].listing) >= 1

(***************************************************************************)
(* C23: the iteration of the persistence loop that persists course record  *)
(* i upserts the instructor extracted from the data table of record i,     *)
(* and upserts no instructor when record i has no data table, whatever     *)
(* the mix of tabled and table-less records.                               *)
(***************************************************************************)
OwnInstructorUpserted ==
    (pc = "persist" /\ ci' = ci + 1) =>
        LET e == listing[ci + 1]
        IN  IF e.classTable.present
            THEN instructors' =
                     FindOrCreate(instructors, InstructorKey,
                                  [name |-> InstructorInfoOf(e).name,
                                   email |-> InstructorInfoOf(e).email,
                                   firstSeen |-> terms[ti].termID])
            ELSE instructors' = instructors

C23_InstructorOfOwnRecord == [][OwnInstructorUpserted]_vars

(***************************************************************************)
(* C24: for every course record with a data table the instructor stored    *)
(* on the record is the very string that is the name of the instructor     *)
(* record derived from the same cell.                                      *)
(***************************************************************************)
C24_InstructorIsRecordName ==
    Extracted =>
        (listing[1].classTable.present =>
             totalResults.crnInfo[1].instructor = totalResults.instructorInfo[1].name)

(***************************************************************************)
(* C25: VERBOSE changes only what is logged: on the same upstream input a  *)
(* run with VERBOSE and a run without it have the same outcome and the     *)
(* same rows.  A run without VERBOSE never ends in a TypeError of the      *)
(* subject loop (VerboseOffSubjectLoop), whatever the pages show, so by    *)
(* the claim no run does.                                                  *)
(***************************************************************************)
SubjectLoopThrew == pc = "subjects" /\ err = "TypeError"

VerboseOffSubjectLoop == ~VERBOSE => ~SubjectLoopThrew

C25_VerboseOnlyLogs == VERBOSE => ~SubjectLoopThrew

====
